---- MODULE Spec2Model ----
(***************************************************************************)
(* Model of the terminal progress spinner of src/src/helpers.ts            *)
(* (progress(): start / stop / success / error / log, the once('readable') *)
(* cursor-reply listener, the 80ms redraw interval and the auto-stop       *)
(* sleep), together with the pieces of its environment it talks to: the    *)
(* process-wide stdin stream, the raw-mode flag and the terminal cursor.   *)
(* Further specifications cover the cursor-reply parser on arbitrary reads *)
(* (SpecParser), parseArgs of the same file (SpecArgs), the dev script     *)
(* scripts/start-dev.js (SpecDev) and the installer build script           *)
(* scripts/build-installer.js (SpecBuild).  Each specification leaves the  *)
(* variables of the other programs at their initial values.                *)
(***************************************************************************)
EXTENDS Integers, Sequences, FiniteSets, TLC

(***************************************************************************)
(* Bounds of the model.                                                    *)
(***************************************************************************)
MaxCalls == 2       \* calls of the callers and key presses of the user in one run
MaxTicks == 2       \* redraw ticks one interval timer performs
LastRow == 2        \* bottom row of the terminal window (rows are 0..LastRow)
MaxReplyLen == 7    \* characters in one read of stdin given to the reply parser
MaxArgs == 3        \* command-line arguments given to parseArgs
MaxRebuilds == 3    \* onRebuild calls of the watcher in one run of the dev script
MaxLoadingTicks == 2   \* redraw ticks one loading() interval of the build script performs

Sessions == {1, 2}                 \* closures created by progress()
Msgs == {"m1", "m2"}               \* startMessage / message arguments
EndMsgs == {"done"}                \* endMessage / logMessage arguments
AutoStopTimers == {0, 500}         \* timer / autoStopTimer arguments
Keys == {<<"x">>, <<"ESC", "[", "A">>}   \* a plain key, the up-arrow key

\* values of `rowNumber` that are not rows
NaN == -1
Undefined == -2

\* the frames table
NumFrames == 10

\* what process.stdin.read() returns on an empty buffer
Null == <<"NULL">>

VARIABLES
    created,     \* created[s]: progress() has been called for closure s
    rowNumber,   \* rowNumber[s]: the closure variable `rowNumber`
    id,          \* id[s]: the closure variable `id` (0: undefined, else a timer)
    timers,      \* every interval timer setInterval has returned so far
    listeners,   \* the pending once('readable') listeners of process.stdin
    sleeps,      \* the pending `await sleep(timer)` continuations of start
    rawMode,     \* process.stdin's raw mode
    inflight,    \* replies the terminal has sent and stdin has not yet got
    stdinBuf,    \* the characters buffered in process.stdin
    cursorRow,   \* the terminal's cursor row
    threw,       \* an exception has been thrown (cursorTo with a NaN row)
    gen,         \* gen[s]: number of start() calls of closure s so far
    nStarts,     \* start() calls so far, over all closures
    nKeys,       \* key presses so far
    nCalls,      \* calls of the callers and key presses so far
    stopped,     \* stopped[s]: stop/success/error/log was called since the last start
    manual,      \* a caller has called stop/success/error/log/start after progress()
    autoExpired, \* autoExpired[s]: an auto-stop sleep of s has expired
    lastOut,     \* what the handler that ran last wrote to process.stdout, in order
    reply,       \* parser harness: the value process.stdin.read() returned
    pos,         \* parser harness: pos.rows computed from `reply`
    argv,        \* parseArgs: process.argv.slice(2)
    argIx,       \* parseArgs: arguments the for loop has processed
    results,     \* parseArgs: the `results` object, a function of its keys
    worker,      \* dev script: `worker` (0: undefined, else a process of `workers`)
    workers,     \* dev script: every process spawn() has started
    devPc,       \* dev script: "build" (first build running), "watching", "failed"
    rebuilds,    \* dev script: onRebuild calls so far
    devLog,      \* dev script: what the handler that ran last printed
    nodeExe,     \* build script: installer/node.exe exists when the script starts
    buildPc,     \* build script: "start", "await" (a step's work is awaited),
                 \*   "returned" (after an error line), "rejected", "done"
    step,        \* build script: the step being run (0: none yet)
    progress,    \* build script: `progress`, the ender of the loading of a step (0: undefined)
    intervals,   \* build script: loading() intervals created and not cleared
    loadingI,    \* build script: loadingI[k] is `i` of the loading of step k
    printed      \* build script: the final lines written so far, in order

\* the variables of the programs other than the spinner
devVars == <<worker, workers, devPc, rebuilds, devLog>>
buildVars == <<nodeExe, buildPc, step, progress, intervals, loadingI, printed>>
toolVars == <<reply, pos, argv, argIx, results, devVars, buildVars>>

vars == <<created, rowNumber, id, timers, listeners, sleeps, rawMode, inflight,
          stdinBuf, cursorRow, threw, gen, nStarts, nKeys, nCalls, stopped, manual,
          autoExpired, lastOut, toolVars>>

(***************************************************************************)
(* Output written to process.stdout.                                       *)
(***************************************************************************)
Ev(t, a, b) == [t |-> t, a |-> a, b |-> b]
NewLineEv == Ev("nl", 0, "")             \* process.stdout.write('\n')
QueryEv == Ev("query", 0, "")            \* process.stdout.write('\u001b[6n')
CursorToEv(row) == Ev("cursorTo", row, "")   \* process.stdout.cursorTo(0, row)
ClearLineEv == Ev("clearLine", 0, "")    \* process.stdout.clearLine(0)
FrameEv(i, m) == Ev("frame", i, m)       \* write(`${frames[i]} ${message}`)
SuccessEv(m) == Ev("success", 0, m)      \* write(`✅ ${m}\n`)
ErrorEv(m) == Ev("error", 0, m)          \* write(`⛔ ${m}\n`)
\* (the message written as a success line)
LogEvAsSuccessLine(m) == Ev("success", 0, m)
LogEv(m) == Ev("log", 0, m)              \* write(m)

Min(a, b) == IF a < b THEN a ELSE b

\* the terminal's cursor row after it has processed the output `evs`
RECURSIVE CursorAfter(_, _)
CursorAfter(row, evs) ==
    IF evs = <<>> THEN row
    ELSE LET e == Head(evs)
             next == CASE e.t \in {"nl", "success", "error"} -> Min(row + 1, LastRow)
                       [] e.t = "cursorTo" -> Min(e.a, LastRow)
                       [] OTHER -> row
         IN CursorAfter(next, Tail(evs))

\* the (1-based) rows the terminal reports for the ESC[6n queries in `evs`
RECURSIVE QueryRows(_, _)
QueryRows(row, evs) ==
    IF evs = <<>> THEN <<>>
    ELSE (IF Head(evs).t = "query" THEN <<row + 1>> ELSE <<>>)
         \o QueryRows(CursorAfter(row, <<Head(evs)>>), Tail(evs))

(***************************************************************************)
(* The cursor-position reply and its parser.                               *)
(***************************************************************************)
Digits == <<"0", "1", "2", "3", "4", "5", "6", "7", "8", "9">>

RECURSIVE Decimal(_)
Decimal(n) == IF n < 10 THEN <<Digits[n + 1]>>
              ELSE Decimal(n \div 10) \o <<Digits[(n % 10) + 1]>>

\* the terminal's answer to ESC[6n with the cursor on (1-based) row r
EncodeReply(r) == <<"ESC", "[">> \o Decimal(r) \o <<";", "1", "R">>

\* process.stdin.read()
Read(buf) == IF buf = <<>> THEN Null ELSE buf

RECURSIVE Escape(_)
Escape(s) == IF s = <<>> THEN <<>>
             ELSE (IF Head(s) = "ESC" THEN <<"\\", "u", "0", "0", "1", "b">>
                   ELSE <<Head(s)>>) \o Escape(Tail(s))

\* JSON.stringify(buf)
Stringify(buf) == IF buf = Null THEN <<"n", "u", "l", "l">>
                  ELSE <<"\"">> \o Escape(buf) \o <<"\"">>

\* index of the first "[" of str, 0 when there is none
FirstBracket(str) ==
    LET hits == {k \in 1..Len(str) : str[k] = "["}
    IN IF hits = {} THEN 0 ELSE CHOOSE k \in hits : \A j \in hits : k <= j

\* .replace(/\[|R"/g, '')
RECURSIVE StripBracketsAndEnd(_)
StripBracketsAndEnd(s) ==
    IF s = <<>> THEN <<>>
    ELSE IF Head(s) = "[" THEN StripBracketsAndEnd(Tail(s))
    ELSE IF Len(s) >= 2 /\ s[1] = "R" /\ s[2] = "\"" THEN StripBracketsAndEnd(Tail(Tail(s)))
    ELSE <<Head(s)>> \o StripBracketsAndEnd(Tail(s))

\* .split(';')[0]
FirstField(s) ==
    LET hits == {k \in 1..Len(s) : s[k] = ";"}
    IN IF hits = {} THEN s
       ELSE SubSeq(s, 1, (CHOOSE k \in hits : \A j \in hits : k <= j) - 1)

DigitValue(c) == CHOOSE d \in 0..9 : Digits[d + 1] = c
IsDigit(c) == \E d \in 0..9 : Digits[d + 1] = c

RECURSIVE DecimalValue(_)
DecimalValue(s) == IF s = <<>> THEN 0
                   ELSE 10 * DecimalValue(SubSeq(s, 1, Len(s) - 1)) + DigitValue(s[Len(s)])

\* unary plus on a non-empty string of the model's characters
ToNumber(s) == IF \A k \in 1..Len(s) : IsDigit(s[k]) THEN DecimalValue(s) ELSE NaN

\* pos.rows of the 'readable' listener
ParseRow(buf) ==
    LET str == Stringify(buf)
        k == FirstBracket(str)
    IN IF k = 0 THEN 0
       ELSE LET x0 == FirstField(StripBracketsAndEnd(SubSeq(str, k, Len(str))))
            IN IF x0 = <<>> THEN 0 ELSE ToNumber(x0)

(***************************************************************************)
(* The closure's functions.                                                *)
(***************************************************************************)
\* the timers after clearInterval(t); clearing a cleared timer changes nothing
ClearInterval(ts, t) == [ts EXCEPT ![t].active = FALSE]

\* what stop() decides on `id`: TRUE when it returns at once
StopReturnsEarly(s) == id[s] = 0

\* stop(): the output it writes, the timer it clears (0: none), whether
\* cursorTo throws (a NaN row) after the interval was cleared
StopOf(s) ==
    IF StopReturnsEarly(s) THEN [out |-> <<>>, clear |-> 0, threw |-> FALSE]
    ELSE IF rowNumber[s] = NaN THEN [out |-> <<>>, clear |-> id[s], threw |-> TRUE]
    ELSE [out |-> <<CursorToEv(rowNumber[s]), ClearLineEv>>, clear |-> id[s], threw |-> FALSE]

TimersAfterStop(s) ==
    IF StopOf(s).clear = 0 THEN timers ELSE ClearInterval(timers, StopOf(s).clear)

\* (the query written before the line is reserved)
StartWritesQueryFirst == <<QueryEv, NewLineEv>>

\* the two writes of start(), in the order of the code
StartWrites == <<NewLineEv, QueryEv>>

\* process.stdin.setRawMode(...) of start() and of the 'readable' listener
RawModeOfStart == TRUE
\* (a listener that leaves raw mode on)
RawModeOfListenerKept == TRUE
RawModeOfListener == FALSE

\* start(m, t) of closure s, up to its `await sleep(timer)`
DoStart(s, m, t) ==
    LET st == StopOf(s)
        g == gen[s] + 1
        out == st.out \o StartWrites
        asked == QueryRows(cursorRow, out)[1]
    IN /\ nCalls < MaxCalls
       /\ nCalls' = nCalls + 1
       /\ nStarts' = nStarts + 1
       /\ gen' = [gen EXCEPT ![s] = g]
       /\ timers' = TimersAfterStop(s)
       /\ stopped' = [stopped EXCEPT ![s] = FALSE]
       /\ UNCHANGED <<toolVars, rowNumber, id, stdinBuf, nKeys, autoExpired>>
       /\ IF st.threw
          THEN /\ threw' = TRUE
               /\ lastOut' = st.out
               /\ UNCHANGED <<listeners, sleeps, rawMode, inflight, cursorRow>>
          ELSE /\ lastOut' = out
               /\ cursorRow' = CursorAfter(cursorRow, out)
               /\ rawMode' = RawModeOfStart
               /\ listeners' = Append(listeners,
                     [sess |-> s, gen |-> g, msg |-> m, asked |-> asked])
               /\ inflight' = Append(inflight,
                     [sess |-> s, gen |-> g, chars |-> EncodeReply(asked)])
               /\ sleeps' = IF t # 0 THEN sleeps \cup {[sess |-> s, gen |-> g]} ELSE sleeps
               /\ UNCHANGED threw

\* progress(message, autoStopTimer): creates the closure and calls start()
Create(s) ==
    /\ ~threw
    /\ ~created[s]
    /\ created' = [created EXCEPT ![s] = TRUE]
    /\ \E m \in Msgs, t \in AutoStopTimers : DoStart(s, m, t)
    /\ UNCHANGED manual

\* a caller's start(startMessage, timer); the defaults of the two
\* parameters (progress()'s arguments) are members of Msgs and AutoStopTimers
Start(s) ==
    /\ ~threw
    /\ created[s]
    /\ \E m \in Msgs, t \in AutoStopTimers : DoStart(s, m, t)
    /\ manual' = TRUE
    /\ UNCHANGED created

\* stop(), followed by the write `tail` unless stop threw
DoStop(s, tail) ==
    LET st == StopOf(s)
        out == IF st.threw THEN st.out ELSE st.out \o tail
    IN /\ timers' = TimersAfterStop(s)
       /\ threw' = st.threw
       /\ lastOut' = out
       /\ cursorRow' = CursorAfter(cursorRow, out)
       /\ UNCHANGED <<toolVars, created, rowNumber, id, listeners, rawMode, inflight,
                      stdinBuf, gen, nStarts, nKeys>>

\* a caller calls one of stop, success, error, log on closure s
EndCall(s) ==
    /\ ~threw
    /\ created[s]
    /\ nCalls < MaxCalls
    /\ nCalls' = nCalls + 1
    /\ stopped' = [stopped EXCEPT ![s] = TRUE]
    /\ manual' = TRUE
    /\ UNCHANGED <<sleeps, autoExpired>>

Stop(s) == EndCall(s) /\ DoStop(s, <<>>)

Success(s) == EndCall(s) /\ \E m \in EndMsgs : DoStop(s, <<SuccessEv(m)>>)

Error(s) == EndCall(s) /\ \E m \in EndMsgs : DoStop(s, <<ErrorEv(m)>>)

Log(s) == EndCall(s) /\ \E m \in EndMsgs : DoStop(s, <<LogEv(m)>>)

\* the continuation of start() after `await sleep(timer)`: stop()
AutoStop(s) ==
    /\ ~threw
    /\ \E p \in sleeps : p.sess = s /\ sleeps' = sleeps \ {p}
    /\ DoStop(s, <<>>)
    /\ autoExpired' = [autoExpired EXCEPT ![s] = TRUE]
    /\ UNCHANGED <<nCalls, stopped, manual>>

(***************************************************************************)
(* The event loop: stdin data, the 'readable' event, the interval timers.  *)
(***************************************************************************)
\* the terminal's oldest reply reaches process.stdin
Deliver ==
    /\ ~threw
    /\ inflight # <<>>
    /\ stdinBuf' = stdinBuf \o Head(inflight).chars
    /\ inflight' = Tail(inflight)
    /\ lastOut' = <<>>
    /\ UNCHANGED <<toolVars, created, rowNumber, id, timers, listeners, sleeps, rawMode,
                   cursorRow, threw, gen, nStarts, nKeys, nCalls, stopped, manual, autoExpired>>

\* the user presses a key
Keystroke ==
    /\ ~threw
    /\ nCalls < MaxCalls
    /\ nCalls' = nCalls + 1
    /\ nKeys' = nKeys + 1
    /\ \E k \in Keys : stdinBuf' = stdinBuf \o k
    /\ lastOut' = <<>>
    /\ UNCHANGED <<toolVars, created, rowNumber, id, timers, listeners, sleeps, rawMode,
                   inflight, cursorRow, threw, gen, nStarts, stopped, manual, autoExpired>>

\* what the k-th listener called by one 'readable' event reads: the first
\* read() empties the buffer, every later one returns null
ReadOfListener(k) == IF k = 1 THEN Read(stdinBuf) ELSE Null

\* the interval timer the k-th listener creates
TimerOfListener(k) ==
    [sess |-> listeners[k].sess, gen |-> listeners[k].gen, msg |-> listeners[k].msg,
     i |-> 0, active |-> TRUE, parsed |-> ParseRow(ReadOfListener(k)),
     asked |-> listeners[k].asked]

\* the last listener of closure s among the pending ones, 0 when there is none
LastListenerOf(s) ==
    LET mine == {k \in 1..Len(listeners) : listeners[k].sess = s}
    IN IF mine = {} THEN 0 ELSE CHOOSE k \in mine : \A j \in mine : j <= k

\* process.stdin emits 'readable' to its listeners when it holds data
ReadableFires == listeners # <<>> /\ stdinBuf # <<>>

\* process.stdin emits 'readable': every pending once-listener runs, in the
\* order of registration, and is removed
Readable ==
    /\ ~threw
    /\ ReadableFires
    /\ timers' = timers \o [k \in 1..Len(listeners) |-> TimerOfListener(k)]
    /\ rowNumber' = [s \in Sessions |->
          IF LastListenerOf(s) = 0 THEN rowNumber[s]
          ELSE ParseRow(ReadOfListener(LastListenerOf(s)))]
    /\ id' = [s \in Sessions |->
          IF LastListenerOf(s) = 0 THEN id[s] ELSE Len(timers) + LastListenerOf(s)]
    /\ rawMode' = RawModeOfListener
    /\ listeners' = <<>>
    /\ stdinBuf' = <<>>
    /\ lastOut' = <<>>
    /\ UNCHANGED <<toolVars, created, sleeps, inflight, cursorRow, threw, gen, nStarts,
                   nKeys, nCalls, stopped, manual, autoExpired>>

\* the row a redraw tick of closure s moves the cursor to
TickRow(s) == rowNumber[s]

\* the setInterval callback of timer t
Tick(t) ==
    /\ ~threw
    /\ t \in 1..Len(timers)
    /\ timers[t].active
    /\ timers[t].i < MaxTicks
    /\ IF TickRow(timers[t].sess) = NaN
       THEN /\ threw' = TRUE
            /\ lastOut' = <<>>
            /\ UNCHANGED <<timers, cursorRow>>
       ELSE /\ lastOut' = <<CursorToEv(TickRow(timers[t].sess)), ClearLineEv,
                            FrameEv(timers[t].i % NumFrames, timers[t].msg)>>
            /\ timers' = [timers EXCEPT ![t].i = @ + 1]
            /\ cursorRow' = CursorAfter(cursorRow, <<CursorToEv(TickRow(timers[t].sess))>>)
            /\ UNCHANGED threw
    /\ UNCHANGED <<toolVars, created, rowNumber, id, listeners, sleeps, rawMode, inflight,
                   stdinBuf, gen, nStarts, nKeys, nCalls, stopped, manual, autoExpired>>

(***************************************************************************)
(* Specifications.                                                         *)
(***************************************************************************)
SpinnerInit ==
    /\ created = [s \in Sessions |-> FALSE]
    /\ rowNumber = [s \in Sessions |-> Undefined]
    /\ id = [s \in Sessions |-> 0]
    /\ timers = <<>>
    /\ listeners = <<>>
    /\ sleeps = {}
    /\ rawMode = FALSE
    /\ inflight = <<>>
    /\ stdinBuf = <<>>
    /\ cursorRow = 0
    /\ threw = FALSE
    /\ gen = [s \in Sessions |-> 0]
    /\ nStarts = 0
    /\ nKeys = 0
    /\ nCalls = 0
    /\ stopped = [s \in Sessions |-> FALSE]
    /\ manual = FALSE
    /\ autoExpired = [s \in Sessions |-> FALSE]
    /\ lastOut = <<>>

\* the parser harness before and outside its runs
ParserIdle == reply = <<>> /\ pos = Undefined

\* parseArgs before and outside its runs
ArgsIdle == argv = <<>> /\ argIx = 0 /\ results = <<>>

\* the dev script before it is run
DevIdle ==
    worker = 0 /\ workers = <<>> /\ devPc = "build" /\ rebuilds = 0 /\ devLog = <<>>

\* the steps of the build script that show a loading() animation, in order
Steps == <<"download", "clean", "copy", "bundle", "cmd", "nsi", "installer">>

\* the build script before it is run
BuildIdle ==
    /\ nodeExe = FALSE /\ buildPc = "start" /\ step = 0 /\ progress = 0
    /\ intervals = {} /\ loadingI = [k \in 1..Len(Steps) |-> 0] /\ printed = <<>>

Init == SpinnerInit /\ ParserIdle /\ ArgsIdle /\ DevIdle /\ BuildIdle

NextOver(S) ==
    \/ \E s \in S : Create(s)
    \/ \E s \in S : Start(s)
    \/ \E s \in S : Stop(s)
    \/ \E s \in S : Success(s)
    \/ \E s \in S : Error(s)
    \/ \E s \in S : Log(s)
    \/ \E s \in S : AutoStop(s)
    \/ Deliver
    \/ Keystroke
    \/ Readable
    \/ \E t \in 1..MaxCalls : Tick(t)

\* two spinner sessions sharing the process's stdin and stdout
Next == NextOver(Sessions)
Spec == Init /\ [][Next]_vars

\* one spinner session alone
NextOne == NextOver({1})
SpecOne == Init /\ [][NextOne]_vars

(***************************************************************************)
(* The reply parser alone: lines 63-66 of the 'readable' listener applied  *)
(* to every read of at most MaxReplyLen characters, and to a null read.    *)
(***************************************************************************)
ReplyChars == {"ESC", "[", "1", "2", ";", "R", "A"}
Reads == {Null} \cup UNION {[1..n -> ReplyChars] : n \in 1..MaxReplyLen}

InitParser == SpinnerInit /\ ArgsIdle /\ DevIdle /\ BuildIdle /\ reply \in Reads /\ pos = Undefined

\* const pos = { rows: +(xy?.[0] || '0'), ... }
ParseReply ==
    /\ pos = Undefined
    /\ pos' = ParseRow(reply)
    /\ UNCHANGED <<created, rowNumber, id, timers, listeners, sleeps, rawMode,
                   inflight, stdinBuf, cursorRow, threw, gen, nStarts, nKeys,
                   nCalls, stopped, manual, autoExpired, lastOut, reply,
                   argv, argIx, results, devVars, buildVars>>

SpecParser == InitParser /\ [][ParseReply]_vars

(***************************************************************************)
(* parseArgs: the command-line arguments as strings of characters, the     *)
(* regular expressions of lines 19-27 and the loop body of lines 29-43.    *)
(***************************************************************************)
LowerCase == <<"a", "b", "c", "d", "e", "f", "g", "h", "i", "j", "k", "l", "m",
               "n", "o", "p", "q", "r", "s", "t", "u", "v", "w", "x", "y", "z">>
UpperCase == <<"A", "B", "C", "D", "E", "F", "G", "H", "I", "J", "K", "L", "M",
               "N", "O", "P", "Q", "R", "S", "T", "U", "V", "W", "X", "Y", "Z">>
IsLower(c) == \E k \in 1..Len(LowerCase) : LowerCase[k] = c
IsUpper(c) == \E k \in 1..Len(UpperCase) : UpperCase[k] = c
\* \w
IsWordChar(c) == IsLower(c) \/ IsUpper(c) \/ IsDigit(c) \/ c = "_"
\* toUpperCase() of one character
ToUpperCase(c) ==
    IF IsLower(c) THEN UpperCase[CHOOSE k \in 1..Len(LowerCase) : LowerCase[k] = c] ELSE c

\* arg.startsWith('-')
StartsWithDash(a) == Len(a) >= 1 /\ a[1] = "-"
StartsWithTwoDashes(a) == Len(a) >= 2 /\ a[1] = "-" /\ a[2] = "-"

\* .replace(/^-{1,2}/, '')
StripDashes(a) ==
    IF StartsWithTwoDashes(a) THEN SubSeq(a, 3, Len(a))
    ELSE IF StartsWithDash(a) THEN SubSeq(a, 2, Len(a))
    ELSE a

\* .replace(/=.+/, ''): from the first "=" that has a character after it
StripValue(a) ==
    LET hits == {k \in 1..(Len(a) - 1) : a[k] = "="}
    IN IF hits = {} THEN a
       ELSE SubSeq(a, 1, (CHOOSE k \in hits : \A j \in hits : k <= j) - 1)

\* .replace(/-\w/gi, t => t.substring(1).toUpperCase())
RECURSIVE CamelCase(_)
CamelCase(a) ==
    IF a = <<>> THEN <<>>
    ELSE IF Len(a) >= 2 /\ a[1] = "-" /\ IsWordChar(a[2])
         THEN <<ToUpperCase(a[2])>> \o CamelCase(SubSeq(a, 3, Len(a)))
    ELSE <<Head(a)>> \o CamelCase(Tail(a))

ArgsKey == <<"a", "r", "g", "s">>
KeyOf(a) == IF StartsWithDash(a) THEN CamelCase(StripValue(StripDashes(a))) ELSE ArgsKey

\* the places of an "=" that /^--.+=/ can end at
FlagEquals(a) ==
    IF StartsWithTwoDashes(a) THEN {k \in 4..Len(a) : a[k] = "="} ELSE {}
LastFlagEquals(a) == CHOOSE k \in FlagEquals(a) : \A j \in FlagEquals(a) : j <= k
\* arg.replace(/^--.+=/, '')
ValueText(a) ==
    IF FlagEquals(a) = {} THEN a ELSE SubSeq(a, LastFlagEquals(a) + 1, Len(a))

\* /^--.+=\bfalse\b/.test(arg)
MatchesFalse(a) ==
    \E k \in FlagEquals(a) :
        /\ Len(a) >= k + 5
        /\ SubSeq(a, k + 1, k + 5) = <<"f", "a", "l", "s", "e">>
        /\ Len(a) > k + 5 => ~IsWordChar(a[k + 6])
\* /^-\w$|^--[^=]+$/.test(arg)
MatchesTrue(a) ==
    \/ Len(a) = 2 /\ a[1] = "-" /\ IsWordChar(a[2])
    \/ StartsWithTwoDashes(a) /\ Len(a) >= 3 /\ \A k \in 3..Len(a) : a[k] # "="
\* /^--.+=\d+$/.test(arg)
MatchesNumber(a) ==
    \E k \in FlagEquals(a) : k < Len(a) /\ \A j \in (k + 1)..Len(a) : IsDigit(a[j])
\* /^--.+=.+$/.test(arg)
MatchesString(a) == \E k \in FlagEquals(a) : k < Len(a)

\* the values of JavaScript the loop handles
JsNull == [kind |-> "null"]
JsBoolean(b) == [kind |-> "boolean", v |-> b]
JsNumber(n) == [kind |-> "number", v |-> n]
JsString(chars) == [kind |-> "string", v |-> chars]
JsArray(items) == [kind |-> "array", v |-> items]

\* a ?? b
Coalesce(a, b) == IF a.kind # "null" THEN a ELSE b
\* !x and its opposite
Falsy(x) ==
    \/ x.kind = "null"
    \/ x.kind = "boolean" /\ ~x.v
    \/ x.kind = "number" /\ x.v = 0
    \/ x.kind = "string" /\ x.v = <<>>

BooleanOf(a) == IF MatchesFalse(a) THEN JsBoolean(FALSE)
                ELSE IF MatchesTrue(a) THEN JsBoolean(TRUE) ELSE JsNull
NumberOf(a) == IF MatchesNumber(a) THEN JsNumber(ToNumber(ValueText(a))) ELSE JsNull
StringOf(a) == IF Falsy(NumberOf(a)) /\ MatchesString(a) THEN JsString(ValueText(a)) ELSE JsNull
WithoutFlagOf(a) == IF ~StartsWithDash(a) THEN JsString(a) ELSE JsNull
ValueOf(a) == Coalesce(NumberOf(a), Coalesce(BooleanOf(a), Coalesce(StringOf(a), WithoutFlagOf(a))))

\* results[key] = val
SetKey(res, key, val) ==
    [k \in DOMAIN res \cup {key} |-> IF k = key THEN val ELSE res[k]]
\* Array.isArray(results[key])
IsArrayAt(res, key) == key \in DOMAIN res /\ res[key].kind = "array"

\* one iteration of the for loop, on the argument arg
LoopBody(res, arg) ==
    IF KeyOf(arg) = ArgsKey /\ ~Falsy(WithoutFlagOf(arg))
    THEN IF IsArrayAt(res, ArgsKey)
         THEN SetKey(res, ArgsKey, JsArray(Append(res[ArgsKey].v, arg)))
         ELSE SetKey(res, ArgsKey, JsArray(<<arg>>))
    ELSE IF ValueOf(arg).kind # "null" THEN SetKey(res, KeyOf(arg), ValueOf(arg))
    ELSE res

\* the command lines of the model: "" a b -h --args --args=x --n=5 --dry-run=false
ArgPool == { <<>>, <<"a">>, <<"b">>, <<"-", "h">>,
             <<"-", "-", "a", "r", "g", "s">>,
             <<"-", "-", "a", "r", "g", "s", "=", "x">>,
             <<"-", "-", "n", "=", "5">>,
             <<"-", "-", "d", "r", "y", "-", "r", "u", "n", "=", "f", "a", "l", "s", "e">> }
CommandLines == UNION {[1..n -> ArgPool] : n \in 0..MaxArgs}

InitArgs == SpinnerInit /\ ParserIdle /\ DevIdle /\ BuildIdle /\ argv \in CommandLines /\ argIx = 0 /\ results = <<>>

\* for (const arg of process.argv.slice(2)) { ... }
ParseArg ==
    /\ argIx < Len(argv)
    /\ argIx' = argIx + 1
    /\ results' = LoopBody(results, argv[argIx + 1])
    /\ UNCHANGED <<created, rowNumber, id, timers, listeners, sleeps, rawMode,
                   inflight, stdinBuf, cursorRow, threw, gen, nStarts, nKeys,
                   nCalls, stopped, manual, autoExpired, lastOut, reply, pos, argv,
                   devVars, buildVars>>

SpecArgs == InitArgs /\ [][ParseArg]_vars

(***************************************************************************)
(* The dev script scripts/start-dev.js: the first build, the watcher's     *)
(* onRebuild, run() and the workers it spawns and kills.                   *)
(***************************************************************************)
\* what the script leaves alone
NotDev == <<created, rowNumber, id, timers, listeners, sleeps, rawMode,
            inflight, stdinBuf, cursorRow, threw, gen, nStarts, nKeys,
            nCalls, stopped, manual, autoExpired, lastOut, reply, pos,
            argv, argIx, results, buildVars>>

\* process.kill(worker.pid) throws when there is no such process
KillThrows(ws, w) == ws[w].state # "running"

\* (the previous worker left alone)
KillPreviousSkipped(ws, w) == [ws |-> ws, log |-> <<>>]

\* if (worker) { try { process.kill(worker.pid) } catch { console.error(...) } }
KillPrevious(ws, w) ==
    IF w = 0 THEN [ws |-> ws, log |-> <<>>]
    ELSE IF KillThrows(ws, w)
         THEN [ws |-> [ws EXCEPT ![w].kill = "failed"], log |-> <<"Failed to kill worker">>]
    ELSE [ws |-> [ws EXCEPT ![w].kill = "sent"], log |-> <<>>]

\* run()
Run ==
    LET k == KillPrevious(workers, worker)
    IN /\ workers' = Append(k.ws, [state |-> "running", kill |-> "no"])
       /\ worker' = Len(workers) + 1
       /\ devLog' = k.log \o <<"Watching for changes">>

\* await esbuild.build(...) resolves; run() // first run
FirstBuildDone ==
    /\ devPc = "build"
    /\ devPc' = "watching"
    /\ Run
    /\ UNCHANGED <<rebuilds, NotDev>>

\* await esbuild.build(...) rejects: catch (error) { console.log(error) }
FirstBuildFails ==
    /\ devPc = "build"
    /\ devPc' = "failed"
    /\ devLog' = <<"error">>
    /\ UNCHANGED <<worker, workers, rebuilds, NotDev>>

\* onRebuild(error) with an error
RebuildFails ==
    /\ devPc = "watching"
    /\ rebuilds < MaxRebuilds
    /\ rebuilds' = rebuilds + 1
    /\ devLog' = <<"Build failed", "Waiting for new changes">>
    /\ UNCHANGED <<worker, workers, devPc, NotDev>>

\* onRebuild(null)
RebuildDone ==
    /\ devPc = "watching"
    /\ rebuilds < MaxRebuilds
    /\ rebuilds' = rebuilds + 1
    /\ Run
    /\ UNCHANGED <<devPc, NotDev>>

\* worker w ends (by itself or by a signal); worker.on('exit', code => ...)
WorkerExit(w, code) ==
    /\ w \in 1..Len(workers)
    /\ workers[w].state = "running"
    /\ code = "signal" => workers[w].kill = "sent"
    /\ workers' = [workers EXCEPT ![w].state = "exited"]
    /\ devLog' = IF code = "0" THEN <<"Waiting for new changes">> ELSE <<>>
    /\ UNCHANGED <<worker, devPc, rebuilds, NotDev>>

InitDev == SpinnerInit /\ ParserIdle /\ ArgsIdle /\ DevIdle /\ BuildIdle

NextDev ==
    \/ FirstBuildDone
    \/ FirstBuildFails
    \/ RebuildFails
    \/ RebuildDone
    \/ \E w \in 1..(MaxRebuilds + 1), code \in {"0", "1", "signal"} : WorkerExit(w, code)

SpecDev == InitDev /\ [][NextDev]_vars

(***************************************************************************)
(* The installer build script scripts/build-installer.js: its steps, each  *)
(* with a loading() animation, and the ender loading() returns.  The       *)
(* cleanAfterBuild block is off (the constant is false) and is left out.   *)
(***************************************************************************)
\* what the script leaves alone
NotBuild == <<created, rowNumber, id, timers, listeners, sleeps, rawMode,
              inflight, stdinBuf, cursorRow, threw, gen, nStarts, nKeys,
              nCalls, stopped, manual, autoExpired, lastOut, reply, pos,
              argv, argIx, results, devVars>>

\* the step is wrapped in try { ... } catch { progress(msg, true); return }
InTry(k) == Steps[k] # "clean"

\* the first step: the download is skipped when node.exe is there
FirstStep == IF nodeExe THEN 2 ELSE 1

\* loading(message) for step k: the intervals after setInterval
Loading(ivs, k) == ivs \cup {k}
\* the function loading() returned for step k: clearInterval(id), then the line
Ender(ivs, k, isError) ==
    [intervals |-> ivs \ {k},
     line |-> [step |-> k, kind |-> IF isError THEN "error" ELSE "success"]]
DoneLine == [step |-> 0, kind |-> "Done!"]

\* package.json is read; the first step starts: progress = loading(...)
ReadPackage ==
    /\ buildPc = "start"
    /\ buildPc' = "await"
    /\ step' = FirstStep
    /\ progress' = FirstStep
    /\ intervals' = Loading(intervals, FirstStep)
    /\ UNCHANGED <<nodeExe, loadingI, printed, NotBuild>>

\* fs.readFile('package.json') rejects, or its JSON does not parse
ReadPackageFails ==
    /\ buildPc = "start"
    /\ buildPc' = "rejected"
    /\ UNCHANGED <<nodeExe, step, progress, intervals, loadingI, printed, NotBuild>>

\* the awaited work of the step resolves: progress(msg), then the next
\* step's progress = loading(...), or the 'Done!' line after the last step
StepDone ==
    LET e == Ender(intervals, progress, FALSE)
    IN /\ buildPc = "await"
       /\ IF step < Len(Steps)
          THEN /\ step' = step + 1
               /\ progress' = step + 1
               /\ intervals' = Loading(e.intervals, step + 1)
               /\ printed' = Append(printed, e.line)
               /\ UNCHANGED buildPc
          ELSE /\ buildPc' = "done"
               /\ intervals' = e.intervals
               /\ printed' = printed \o <<e.line, DoneLine>>
               /\ UNCHANGED <<step, progress>>
       /\ UNCHANGED <<nodeExe, loadingI, NotBuild>>

\* the awaited work of the step rejects: the catch block when there is one,
\* else the rejection leaves the async function
StepFails ==
    LET e == Ender(intervals, progress, TRUE)
    IN /\ buildPc = "await"
       /\ IF InTry(step)
          THEN /\ buildPc' = "returned"
               /\ intervals' = e.intervals
               /\ printed' = Append(printed, e.line)
          ELSE /\ buildPc' = "rejected"
               /\ UNCHANGED <<intervals, printed>>
       /\ UNCHANGED <<nodeExe, step, progress, loadingI, NotBuild>>

\* the setInterval callback of the loading of step k
LoadingTick(k) ==
    /\ k \in intervals
    /\ loadingI[k] < MaxLoadingTicks
    /\ loadingI' = [loadingI EXCEPT ![k] = @ + 1]
    /\ UNCHANGED <<nodeExe, buildPc, step, progress, intervals, printed, NotBuild>>

InitBuild ==
    /\ SpinnerInit /\ ParserIdle /\ ArgsIdle /\ DevIdle
    /\ nodeExe \in BOOLEAN /\ buildPc = "start" /\ step = 0 /\ progress = 0
    /\ intervals = {} /\ loadingI = [k \in 1..Len(Steps) |-> 0] /\ printed = <<>>

NextBuild ==
    \/ ReadPackage
    \/ ReadPackageFails
    \/ StepDone
    \/ StepFails
    \/ \E k \in 1..Len(Steps) : LoadingTick(k)

SpecBuild == InitBuild /\ [][NextBuild]_vars

(***************************************************************************)
(* Properties.                                                             *)
(***************************************************************************)
Timers == 1..Len(timers)
ActiveTimersOf(s) == {t \in Timers : timers[t].sess = s /\ timers[t].active}
PendingOf(s) == {k \in 1..Len(listeners) : listeners[k].sess = s}
\* nothing has reached process.stdin yet: no key, no reply of the terminal
NothingArrived == nKeys = 0 /\ Len(inflight) = nStarts

\* C1: a session never has more than one interval timer that was created
\* and not yet cleared.
C1_AtMostOneActiveTimer == \A s \in Sessions : Cardinality(ActiveTimersOf(s)) <= 1

\* C2: once stop, success, error or log has been called on a session, no
\* redraw tick of that session runs until start is called again.
C2_NoTickAfterEnd ==
    [][\A t \in 1..MaxCalls : Tick(t) => ~stopped[timers[t].sess]]_vars

\* C3: stop() on a session without an active interval timer writes nothing
\* and does not throw.
C3_StopWhenIdleIsNoOp ==
    [][\A s \in Sessions :
          (Stop(s) /\ ActiveTimersOf(s) = {}) => (lastOut' = <<>> /\ ~threw')]_vars

\* C4: when a caller's stop/success/error/log has already ended the animation
\* of a session, the expiry of the auto-stop sleep writes nothing (no cursor
\* move, no line clear).
C4_LateAutoStopIsNoOp ==
    [][\A s \in Sessions :
          (AutoStop(s) /\ stopped[s] /\ ActiveTimersOf(s) = {} /\ PendingOf(s) = {})
             => lastOut' = <<>>]_vars

\* C5: with no call of the caller after progress(message, T), the expiry of
\* the auto-stop sleep clears the spinner line (one cursor move, one line
\* clear) and no redraw tick runs after it.
C5_AutoStopClearsOnceAndEndsTicks ==
    [][~manual' =>
          /\ \A s \in Sessions :
                AutoStop(s) => \E r \in 0..LastRow + 1 : lastOut' = <<CursorToEv(r), ClearLineEv>>
          /\ \A t \in 1..MaxCalls : Tick(t) => ~autoExpired[timers[t].sess]]_vars

\* C6: every redraw tick of a session belongs to the latest start() of that
\* session: a later start ends the animation of every earlier one.
C6_TicksBelongToLatestStart ==
    [][\A t \in 1..MaxCalls : Tick(t) => timers[t].gen = gen[timers[t].sess]]_vars

\* C7: every redraw tick of an animation moves the cursor to the row its own
\* start's listener parsed, and so does the stop() that clears its timer.
C7_RowFixedPerStart ==
    [][/\ \A t \in 1..MaxCalls :
             (Tick(t) /\ ~threw') => lastOut'[1] = CursorToEv(timers[t].parsed)
       /\ \A t \in Timers :
             (timers[t].active /\ ~timers'[t].active /\ ~threw')
                => lastOut'[1] = CursorToEv(timers[t].parsed)]_vars

C10_EachSessionGetsOwnRow ==
    [][(Readable /\ nKeys = 0 /\ \A s \in Sessions : Cardinality(PendingOf(s)) = 1)
          => \A s \in Sessions : rowNumber'[s] = listeners[LastListenerOf(s)].asked]_vars

\* a read that is exactly ESC [ <row> ; <col> R with decimal row and column
SemicolonAt(buf) == CHOOSE k \in 1..Len(buf) : buf[k] = ";"
IsCursorReply(buf) ==
    /\ buf # Null
    /\ Len(buf) >= 6
    /\ buf[1] = "ESC" /\ buf[2] = "[" /\ buf[Len(buf)] = "R"
    /\ Cardinality({k \in 1..Len(buf) : buf[k] = ";"}) = 1
    /\ SemicolonAt(buf) \in 4..(Len(buf) - 2)
    /\ \A k \in 3..(Len(buf) - 1) : k # SemicolonAt(buf) => IsDigit(buf[k])
RowField(buf) == DecimalValue(SubSeq(buf, 3, SemicolonAt(buf) - 1))

\* C11: the parser gives the row of every well-formed cursor reply and row 0
\* for every other read (a null read and a non-decimal row field included).
C11_ParserRowOrZero ==
    pos # Undefined => pos = IF IsCursorReply(reply) THEN RowField(reply) ELSE 0

\* what stop() writes when an animation of s is running, nothing otherwise
ClearOfRunning(s) ==
    IF ActiveTimersOf(s) # {} THEN <<CursorToEv(rowNumber[s]), ClearLineEv>> ELSE <<>>

\* C12: success(m) and error(m) write, in order, the cursor move to the
\* owned row and the line clear when an animation is running, then the
\* indicator line of m, and nothing else; with no animation running they
\* write the indicator line only.
C12_EndWritesClearThenIndicator ==
    [][\A s \in Sessions :
         /\ Success(s) => \E m \in EndMsgs : lastOut' = ClearOfRunning(s) \o <<SuccessEv(m)>>
         /\ Error(s) => \E m \in EndMsgs : lastOut' = ClearOfRunning(s) \o <<ErrorEv(m)>>]_vars

\* C13: log(m) does what stop() does in that state and then writes exactly
\* m (no indicator, no newline); the timer `id` names is cleared by then, and
\* nothing is written when stop() throws.
C13_LogIsStopThenMessage ==
    [][\A s \in Sessions : Log(s) =>
         /\ threw' = StopOf(s).threw
         /\ id[s] # 0 => ~timers'[id[s]].active
         /\ \E m \in EndMsgs :
              lastOut' = IF threw' THEN <<>> ELSE StopOf(s).out \o <<Ev("log", 0, m)>>]_vars

\* log() has just stopped a running animation and written its message
C13_Witness ==
    /\ Len(lastOut) = 3
    /\ lastOut[1].t = "cursorTo" /\ lastOut[2].t = "clearLine" /\ lastOut[3].t = "log"
    /\ stopped[1] /\ id[1] # 0 /\ ~timers[id[1]].active

\* the arguments processed so far and, of them, those not starting with "-"
Processed == SubSeq(argv, 1, argIx)
Flagless(args) == SelectSeq(args, LAMBDA a : ~StartsWithDash(a))

\* C14: once any flagless argument has been processed, results.args is an
\* array holding exactly the flagless arguments processed, in order.
C14_ArgsIsArrayOfFlagless ==
    Flagless(Processed) # <<>> =>
        /\ IsArrayAt(results, ArgsKey)
        /\ results[ArgsKey].v = Flagless(Processed)

\* C15: the k-th tick of a start's timer moves the cursor to the row captured
\* from that start's reply, clears the line and writes frame k mod 10 and the
\* message; the index grows by one per tick and is 0 for every new timer.
C15_TickDrawsFrameKAtCapturedRow ==
    [][(\A t \in Timers : Tick(t) =>
           /\ lastOut' = <<CursorToEv(timers[t].parsed), ClearLineEv,
                           FrameEv(timers[t].i % NumFrames, timers[t].msg)>>
           /\ timers'[t].i = timers[t].i + 1)
       /\ (Readable => \A t \in (Len(timers) + 1)..Len(timers') : timers'[t].i = 0)]_vars

\* the auto-stop sleep p of s expires in this step
Expires(s, p) == p \in sleeps /\ p.sess = s /\ AutoStop(s) /\ sleeps' = sleeps \ {p}
\* a later start of s has replaced the animation of the start that scheduled p
Replaced(s, p) ==
    /\ p.gen < gen[s]
    /\ \A t \in Timers : timers[t].sess = s /\ timers[t].gen = p.gen => ~timers[t].active

\* C16: when the auto-stop of a start expires after a later start has
\* replaced that start's animation, every running timer of the later start
\* keeps running and its line is not cleared.
C16_AutoStopStopsOnlyItsOwnStart ==
    [][\A s \in Sessions : \A p \in sleeps : \A t \in ActiveTimersOf(s) :
         Expires(s, p) /\ Replaced(s, p) /\ timers[t].gen > p.gen
             => timers'[t].active /\ lastOut' = <<>>]_vars

\* the workers that run and have not been sent a kill
Unkilled == {w \in 1..Len(workers) : workers[w].state = "running" /\ workers[w].kill # "sent"}
\* this step spawns a worker
Spawns == Len(workers') = Len(workers) + 1

\* C17: a spawn comes with a kill of the previous worker (sent, or failed
\* because that worker had ended) and still happens when the kill fails; at
\* most one running worker has not been sent a kill; a failed rebuild changes
\* neither `worker` nor any worker.
C17_KillBeforeSpawn ==
    /\ [](Cardinality(Unkilled) <= 1)
    /\ [][/\ Spawns /\ worker # 0 => workers'[worker].kill # "no"
          /\ Spawns /\ worker # 0 /\ workers[worker].state = "running"
                => workers'[worker].kill = "sent"
          /\ (FirstBuildDone \/ RebuildDone) => Spawns /\ workers'[worker'].state = "running"
          /\ RebuildFails => UNCHANGED <<worker, workers>>]_vars

\* a rebuild found its previous worker gone, and spawned the next one
C17_Witness ==
    \E w \in 1..Len(workers) :
        workers[w].kill = "failed" /\ worker > w /\ workers[worker].state = "running"

\* the steps started so far, and those that have their final line
StartedSteps == IF step = 0 THEN {} ELSE FirstStep..step
EndedSteps == {printed[n].step : n \in 1..Len(printed)} \ {0}
Finished == buildPc \in {"returned", "rejected", "done"}

\* C18: the only loading interval active while a step runs is that step's,
\* every earlier step has its final line, no interval is active and every
\* started step has its final line once the script has finished, and 'Done!'
\* is printed only after a success line of every step.
C18_EveryLoadingIsEnded ==
    /\ Cardinality(intervals) <= 1
    /\ buildPc = "await" => intervals = {step} /\ EndedSteps = StartedSteps \ {step}
    /\ Finished => intervals = {} /\ EndedSteps = StartedSteps
    /\ (\E n \in 1..Len(printed) : printed[n] = DoneLine) =>
           /\ StartedSteps = FirstStep..Len(Steps)
           /\ \A n \in 1..Len(printed) : printed[n].kind # "error"

====
